---- MODULE Spec2Model ----
(***************************************************************************)
(* Accounts-receivable audit application: the compliance check, the aging  *)
(* and allowance calculation, the CSV reader and the App component's data  *)
(* handlers.                                                               *)
(*                                                                         *)
(* Representation of JavaScript values:                                    *)
(*   - a string is the sequence of its characters (one-character strings); *)
(*     `undefined` read where a string is expected is Undefined;           *)
(*   - a number is Num(n), NaN, or NumUndefined when a field that should   *)
(*     hold a number is missing; amounts are whole numbers, allowance_rate *)
(*     is held in percent and estimated_allowance in hundredths, so that   *)
(*     total_amount * allowance_rate is computed without fractions;        *)
(*   - an object is a function from property names (strings) to values;    *)
(*   - the literals of the union types (bucket labels, issue types,        *)
(*     severities, ViewState) are TLA+ strings.                            *)
(***************************************************************************)
EXTENDS Integers, Sequences, FiniteSets, TLC

VARIABLES
    transactions,   \* useState<Transaction[]>
    invoices,       \* useState<Invoice[]>
    customers,      \* useState<Customer[]>
    coa,            \* useState<Account[]>
    currentView,    \* useState<ViewState>
    complianceMemo, \* useMemo cell of complianceIssues: [deps, value]
    agingMemo,      \* useMemo cell of agingData: [deps, value]
    upload,         \* the handleFileUpload invocation: position, locals, alert
    selectedCustomer, \* useState<Customer | null>: <<>> is null, <<c>> is c
    aiAnalysis,     \* useState<string>
    isAnalyzing,    \* useState(false)
    summaryReport,  \* useState<string>
    requests,       \* the promises of the AI handlers, in the order made
    call            \* a single function call: [fn, args, returned, ret]

aiVars == <<selectedCustomer, aiAnalysis, isAnalyzing, summaryReport, requests>>

vars == <<transactions, invoices, customers, coa, currentView,
          complianceMemo, agingMemo, upload, aiVars, call>>

appVars == <<transactions, invoices, customers, coa, currentView,
             complianceMemo, agingMemo, upload, aiVars>>

-----------------------------------------------------------------------------
(* Property names and string literals of the source *)

account_id == <<"a", "c", "c", "o", "u", "n", "t", "_", "i", "d">>
account_name == <<"a", "c", "c", "o", "u", "n", "t", "_", "n", "a", "m", "e">>
account_type == <<"a", "c", "c", "o", "u", "n", "t", "_", "t", "y", "p", "e">>
customer_id == <<"c", "u", "s", "t", "o", "m", "e", "r", "_", "i", "d">>
risk_score_history == <<"r", "i", "s", "k", "_", "s", "c", "o", "r", "e", "_", "h", "i", "s", "t", "o", "r", "y">>
invoice_id == <<"i", "n", "v", "o", "i", "c", "e", "_", "i", "d">>
balance_due == <<"b", "a", "l", "a", "n", "c", "e", "_", "d", "u", "e">>
due_date == <<"d", "u", "e", "_", "d", "a", "t", "e">>
transaction_id == <<"t", "r", "a", "n", "s", "a", "c", "t", "i", "o", "n", "_", "i", "d">>
debit_account_id == <<"d", "e", "b", "i", "t", "_", "a", "c", "c", "o", "u", "n", "t", "_", "i", "d">>
credit_account_id == <<"c", "r", "e", "d", "i", "t", "_", "a", "c", "c", "o", "u", "n", "t", "_", "i", "d">>
original_amount == <<"o", "r", "i", "g", "i", "n", "a", "l", "_", "a", "m", "o", "u", "n", "t">>
amount_paid == <<"a", "m", "o", "u", "n", "t", "_", "p", "a", "i", "d">>
amount == <<"a", "m", "o", "u", "n", "t">>

\* `undefined` where a string is expected (no string of characters equals it)
Undefined == <<"undefined">>

\* String(undefined), as a template literal prints it
UndefinedText == <<"u", "n", "d", "e", "f", "i", "n", "e", "d">>

-----------------------------------------------------------------------------
(* JavaScript numbers *)

Num(n) == [kind |-> "number", v |-> n]

NaN == [kind |-> "NaN", v |-> 0]

\* `undefined` where a number is expected
NumUndefined == [kind |-> "undefined", v |-> 0]

IsNum(x) == x.kind = "number"

\* a <= b : false as soon as one side is NaN or undefined
JsLe(a, b) == IsNum(a) /\ IsNum(b) /\ a.v <= b.v

\* a + b, a - b, a * b : NaN as soon as one side is NaN or undefined
JsAdd(a, b) == IF IsNum(a) /\ IsNum(b) THEN Num(a.v + b.v) ELSE NaN

JsSub(a, b) == IF IsNum(a) /\ IsNum(b) THEN Num(a.v - b.v) ELSE NaN

JsMul(a, b) == IF IsNum(a) /\ IsNum(b) THEN Num(a.v * b.v) ELSE NaN

\* Math.ceil(a / d) for a divisor d > 0
JsCeilDiv(a, d) == IF IsNum(a) THEN Num(-((-a.v) \div d)) ELSE NaN

\* obj.key read as a string / as a number
StrField(obj, key) == IF key \in DOMAIN obj THEN obj[key] ELSE Undefined

NumField(obj, key) == IF key \in DOMAIN obj THEN obj[key] ELSE NumUndefined

\* `${value}` in a template literal
TemplateText(s) == IF s = Undefined THEN UndefinedText ELSE s

-----------------------------------------------------------------------------
(* new Date(string).getTime() *)

Digits == {"0", "1", "2", "3", "4", "5", "6", "7", "8", "9"}

DigitVal(c) ==
    CASE c = "0" -> 0 [] c = "1" -> 1 [] c = "2" -> 2 [] c = "3" -> 3
      [] c = "4" -> 4 [] c = "5" -> 5 [] c = "6" -> 6 [] c = "7" -> 7
      [] c = "8" -> 8 [] c = "9" -> 9

AllDigits(s, from, to) == \A k \in from..to : s[k] \in Digits

Number2(s, at) == 10 * DigitVal(s[at]) + DigitVal(s[at + 1])

Number4(s, at) == 100 * Number2(s, at) + Number2(s, at + 2)

IsLeapYear(y) == (y % 4 = 0 /\ y % 100 # 0) \/ y % 400 = 0

DaysInMonth(y, m) ==
    IF m = 2 THEN (IF IsLeapYear(y) THEN 29 ELSE 28)
    ELSE IF m \in {4, 6, 9, 11} THEN 30 ELSE 31

RECURSIVE DaysBeforeMonth(_, _)
DaysBeforeMonth(y, m) ==
    IF m = 1 THEN 0 ELSE DaysBeforeMonth(y, m - 1) + DaysInMonth(y, m - 1)

LeapDaysBefore(y) == ((y - 1) \div 4) - ((y - 1) \div 100) + ((y - 1) \div 400)

\* days from 1970-01-01 to the civil date y-m-d
DaysFromEpoch(y, m, d) ==
    (y - 1970) * 365 + (LeapDaysBefore(y) - LeapDaysBefore(1970))
        + DaysBeforeMonth(y, m) + (d - 1)

\* 1000 * 60 * 60 * 24 milliseconds; the model counts time in seconds (TLC's
\* integers are 32-bit) and no modelled date has a sub-second part
SecondsPerDay == 86400

IsIsoDate(s) ==
    /\ Len(s) >= 10
    /\ AllDigits(s, 1, 4) /\ s[5] = "-" /\ AllDigits(s, 6, 7)
    /\ s[8] = "-" /\ AllDigits(s, 9, 10)
    /\ Number2(s, 6) \in 1..12
    /\ Number2(s, 9) \in 1..DaysInMonth(Number4(s, 1), Number2(s, 6))

IsIsoTime(s) ==
    /\ Len(s) = 20
    /\ s[11] = "T" /\ AllDigits(s, 12, 13) /\ s[14] = ":"
    /\ AllDigits(s, 15, 16) /\ s[17] = ":" /\ AllDigits(s, 18, 19)
    /\ s[20] = "Z"
    /\ Number2(s, 12) \in 0..23 /\ Number2(s, 15) \in 0..59
    /\ Number2(s, 18) \in 0..59

\* The time value of new Date(s): a date-only ISO string is UTC midnight, an
\* ISO date-time ending in Z is that instant, and a string that is no date
\* (or undefined) is an Invalid Date, whose getTime() is NaN.
DateGetTime(s) ==
    IF ~IsIsoDate(s) THEN NaN
    ELSE LET day == DaysFromEpoch(Number4(s, 1), Number2(s, 6), Number2(s, 9))
         IN  IF Len(s) = 10 THEN Num(day * SecondsPerDay)
             ELSE IF IsIsoTime(s)
                  THEN Num(day * SecondsPerDay + 3600 * Number2(s, 12)
                           + 60 * Number2(s, 15) + Number2(s, 18))
                  ELSE NaN

-----------------------------------------------------------------------------
(* LOGIC: COMPLIANCE CHECK *)

DebitText == <<"D", "e", "b", "i", "t", " ", "A", "c", "c", "o", "u", "n", "t", " ", "I", "D", " ">>

CreditText == <<"C", "r", "e", "d", "i", "t", " ", "A", "c", "c", "o", "u", "n", "t", " ", "I", "D", " ">>

NotFoundText == <<" ", "n", "o", "t", " ", "f", "o", "u", "n", "d", " ", "i", "n", " ", "C", "O", "A", ".">>

\* new Set(coa.map(a => a.account_id))
AccountIdSet(accounts) ==
    {StrField(accounts[k], account_id) : k \in DOMAIN accounts}

DebitIssue(txn) ==
    [transaction_id |-> StrField(txn, transaction_id),
     issue_type |-> "Invalid Debit Account",
     description |-> DebitText \o TemplateText(StrField(txn, debit_account_id))
                         \o NotFoundText,
     severity |-> "High"]

CreditIssue(txn) ==
    [transaction_id |-> StrField(txn, transaction_id),
     issue_type |-> "Invalid Credit Account",
     description |-> CreditText \o TemplateText(StrField(txn, credit_account_id))
                         \o NotFoundText,
     severity |-> "High"]

\* IssuesOfTxn with the two tests in the other order
IssuesOfTxnCreditFirst(txn, accountIds) ==
    (IF StrField(txn, credit_account_id) \notin accountIds
     THEN <<CreditIssue(txn)>> ELSE <<>>)
    \o (IF StrField(txn, debit_account_id) \notin accountIds
        THEN <<DebitIssue(txn)>> ELSE <<>>)

\* the body of transactions.forEach: the issues one transaction pushes
IssuesOfTxn(txn, accountIds) ==
    (IF StrField(txn, debit_account_id) \notin accountIds
     THEN <<DebitIssue(txn)>> ELSE <<>>)
    \o (IF StrField(txn, credit_account_id) \notin accountIds
        THEN <<CreditIssue(txn)>> ELSE <<>>)

RECURSIVE ForEachTxn(_, _, _)
ForEachTxn(txns, accountIds, issues) ==
    IF txns = <<>> THEN issues
    ELSE ForEachTxn(Tail(txns), accountIds,
                    issues \o IssuesOfTxn(Head(txns), accountIds))

checkCoaCompliance(txns, accounts) ==
    ForEachTxn(txns, AccountIdSet(accounts), <<>>)

-----------------------------------------------------------------------------
(* LOGIC: AGING & ALLOWANCE CALCULATION *)

BucketLabels == <<"Current", "1-30 Days", "31-60 Days", "61-90 Days", "90+ Days">>

\* allowance_rate of the five buckets, in percent (0.01, 0.05, 0.10, 0.25, 0.50)
BucketRates == <<1, 5, 10, 25, 50>>

InitialBuckets ==
    [k \in 1..5 |->
        [bucket |-> BucketLabels[k], total_amount |-> Num(0),
         invoice_count |-> 0, allowance_rate |-> Num(BucketRates[k]),
         estimated_allowance |-> Num(0)]]

\* Math.ceil((REF_DATE.getTime() - dueDate.getTime()) / (1000*60*60*24))
DiffDays(inv, refTime) ==
    JsCeilDiv(JsSub(refTime, DateGetTime(StrField(inv, due_date))),
              SecondsPerDay)

\* BucketIndex with < for <= : a boundary age falls in the older bucket
BucketIndexStrict(diffDays) ==
    IF IsNum(diffDays) /\ diffDays.v < 0 THEN 1
    ELSE IF IsNum(diffDays) /\ diffDays.v < 30 THEN 2
    ELSE IF IsNum(diffDays) /\ diffDays.v < 60 THEN 3
    ELSE IF IsNum(diffDays) /\ diffDays.v < 90 THEN 4
    ELSE 5

\* BucketIndex with an age that is not a number taken as not overdue
BucketIndexNaNCurrent(diffDays) ==
    IF ~IsNum(diffDays) \/ diffDays.v <= 0 THEN 1
    ELSE IF diffDays.v <= 30 THEN 2
    ELSE IF diffDays.v <= 60 THEN 3
    ELSE IF diffDays.v <= 90 THEN 4
    ELSE 5

\* the if / else-if chain; the source's index 0..4 is position 1..5 here
BucketIndex(diffDays) ==
    IF JsLe(diffDays, Num(0)) THEN 1
    ELSE IF JsLe(diffDays, Num(30)) THEN 2
    ELSE IF JsLe(diffDays, Num(60)) THEN 3
    ELSE IF JsLe(diffDays, Num(90)) THEN 4
    ELSE 5

\* SkipsInvoice with < for <= : a zero balance is bucketed
SkipsInvoiceNegativeOnly(inv) ==
    IsNum(NumField(inv, balance_due)) /\ NumField(inv, balance_due).v < 0

\* if (inv.balance_due <= 0) return;
SkipsInvoice(inv) == JsLe(NumField(inv, balance_due), Num(0))

\* the body of invoices.forEach
AddInvoice(buckets, inv, refTime) ==
    IF SkipsInvoice(inv) THEN buckets
    ELSE LET k == BucketIndex(DiffDays(inv, refTime))
         IN  [buckets EXCEPT
                 ![k].total_amount = JsAdd(@, NumField(inv, balance_due)),
                 ![k].invoice_count = @ + 1]

RECURSIVE ForEachInvoice(_, _, _)
ForEachInvoice(invs, buckets, refTime) ==
    IF invs = <<>> THEN buckets
    ELSE ForEachInvoice(Tail(invs), AddInvoice(buckets, Head(invs), refTime),
                        refTime)

\* WithAllowance applying the rate as a fraction of one, not of a hundred
WithAllowanceRateOfOne(buckets) ==
    [k \in DOMAIN buckets |->
        [buckets[k] EXCEPT !.estimated_allowance = buckets[k].total_amount]]

\* buckets.forEach(b => b.estimated_allowance = b.total_amount * b.allowance_rate)
WithAllowance(buckets) ==
    [k \in DOMAIN buckets |->
        [buckets[k] EXCEPT
            !.estimated_allowance =
                JsMul(buckets[k].total_amount, buckets[k].allowance_rate)]]

calculateAllowance(invs, referenceDateStr) ==
    WithAllowance(ForEachInvoice(invs, InitialBuckets,
                                 DateGetTime(referenceDateStr)))

-----------------------------------------------------------------------------
(* UTILS: CSV PARSER *)

\* The white space String.prototype.trim removes, among the modelled characters
WhiteSpace == {" ", "\t", "\r", "\n"}

RECURSIVE TrimStart(_)
TrimStart(s) ==
    IF s # <<>> /\ Head(s) \in WhiteSpace THEN TrimStart(Tail(s)) ELSE s

RECURSIVE TrimEnd(_)
TrimEnd(s) ==
    IF s # <<>> /\ s[Len(s)] \in WhiteSpace
    THEN TrimEnd(SubSeq(s, 1, Len(s) - 1)) ELSE s

\* s.trim()
Trim(s) == TrimEnd(TrimStart(s))

\* One turn of the for loop of parseCSVLine with the quote test left out
CsvCharStepNoQuotes(st, char) ==
    IF char = "," 
    THEN [st EXCEPT !.values = Append(@, Trim(st.currentValue)),
                    !.currentValue = <<>>]
    ELSE [st EXCEPT !.currentValue = Append(@, char)]

\* One turn of the for loop of parseCSVLine on the character char
CsvCharStep(st, char) ==
    IF char = "\""
    THEN [st EXCEPT !.inQuote = ~st.inQuote]
    ELSE IF char = "," /\ ~st.inQuote
         THEN [st EXCEPT !.values = Append(@, Trim(st.currentValue)),
                         !.currentValue = <<>>]
         ELSE [st EXCEPT !.currentValue = Append(@, char)]

RECURSIVE CsvCharLoop(_, _, _)
CsvCharLoop(line, i, st) ==
    IF i > Len(line) THEN st
    ELSE CsvCharLoop(line, i + 1, CsvCharStep(st, line[i]))

parseCSVLine(line) ==
    LET st == CsvCharLoop(line, 1,
                          [values |-> <<>>, inQuote |-> FALSE,
                           currentValue |-> <<>>])
    IN  Append(st.values, Trim(st.currentValue))

\* s.split(sep) for a one-character separator: the stretches between the
\* occurrences of sep, one more than there are occurrences
SplitAt(s, sep) ==
    LET at == {i \in DOMAIN s : s[i] = sep}
        nth(k) == CHOOSE p \in at : Cardinality({q \in at : q < p}) = k - 1
        n == Cardinality(at)
    IN  [k \in 1..(n + 1) |->
            SubSeq(s, IF k = 1 THEN 1 ELSE nth(k - 1) + 1,
                      IF k = n + 1 THEN Len(s) ELSE nth(k) - 1)]

\* content.split(/\r?\n/): a line ends at "\n", and a "\r" right before
\* it belongs to the separator
SplitLines(content) ==
    LET parts == SplitAt(content, "\n")
    IN  [k \in DOMAIN parts |->
            IF k < Len(parts) /\ parts[k] # <<>>
                              /\ parts[k][Len(parts[k])] = "\r"
            THEN SubSeq(parts[k], 1, Len(parts[k]) - 1)
            ELSE parts[k]]

IsNotBlank(l) == Trim(l) # <<>>

\* s.replace(/^"|"$/g, ''): one leading and one trailing double quote
Unquote(s) ==
    LET a == IF s # <<>> /\ s[1] = "\"" THEN Tail(s) ELSE s
    IN  IF a # <<>> /\ a[Len(a)] = "\"" THEN SubSeq(a, 1, Len(a) - 1) ELSE a

LowerChar(c) ==
    CASE c = "A" -> "a" [] c = "B" -> "b" [] c = "C" -> "c" [] c = "D" -> "d"
      [] c = "E" -> "e" [] c = "F" -> "f" [] c = "G" -> "g" [] c = "H" -> "h"
      [] c = "I" -> "i" [] c = "J" -> "j" [] c = "K" -> "k" [] c = "L" -> "l"
      [] c = "M" -> "m" [] c = "N" -> "n" [] c = "O" -> "o" [] c = "P" -> "p"
      [] c = "Q" -> "q" [] c = "R" -> "r" [] c = "S" -> "s" [] c = "T" -> "t"
      [] c = "U" -> "u" [] c = "V" -> "v" [] c = "W" -> "w" [] c = "X" -> "x"
      [] c = "Y" -> "y" [] c = "Z" -> "z" [] OTHER -> c

\* s.toLowerCase()
toLowerCase(s) == [k \in DOMAIN s |-> LowerChar(s[k])]

\* a header cell whose letter case is kept
HeaderNameKeepsCase(h) == Unquote(Trim(h))

\* h.trim().replace(/^"|"$/g, '').toLowerCase() of one cell of the first line
HeaderName(h) == toLowerCase(Unquote(Trim(h)))

\* lines[0].split(',').map(...)
HeaderNames(line) ==
    LET cells == SplitAt(line, ",")
    IN  [k \in DOMAIN cells |-> HeaderName(cells[k])]

RECURSIVE DigitsValue(_, _, _)
DigitsValue(s, i, acc) ==
    IF i > Len(s) \/ s[i] \notin Digits THEN acc
    ELSE DigitsValue(s, i + 1, 10 * acc + DigitVal(s[i]))

\* parseFloat(s) for the strings of the model, which hold no decimal point
\* and no exponent: leading white space, a sign, then digits; NaN when no
\* digit follows, and for undefined
parseFloat(s) ==
    IF s = Undefined THEN NaN
    ELSE LET t == TrimStart(s)
             signed == t # <<>> /\ t[1] \in {"-", "+"}
             d == IF signed THEN Tail(t) ELSE t
         IN  IF d = <<>> \/ d[1] \notin Digits THEN NaN
             ELSE IF signed /\ t[1] = "-" THEN Num(-DigitsValue(d, 1, 0))
                  ELSE Num(DigitsValue(d, 1, 0))

\* a conversion that lets NaN through
OrZeroKeepsNaN(x) == x

\* x || 0 for a number x
OrZero(x) == IF IsNum(x) /\ x.v # 0 THEN x ELSE Num(0)

\* ['original_amount', 'amount_paid', 'balance_due', 'amount']
NumberHeaders == {original_amount, amount_paid, balance_due, amount}

\* values[i]?.replace(/^"|"$/g, '')
CellValue(values, i) ==
    IF i \in DOMAIN values THEN Unquote(values[i]) ELSE Undefined

\* val ? val.split(';').map(n => parseFloat(n) || 0) : []
ScoreHistory(val) ==
    IF val = Undefined \/ val = <<>> THEN <<>>
    ELSE LET parts == SplitAt(val, ";")
         IN  [k \in DOMAIN parts |-> OrZero(parseFloat(parts[k]))]

\* the value headers.forEach stores under the header h
FieldValue(h, val) ==
    IF h \in NumberHeaders THEN OrZero(parseFloat(val))
    ELSE IF h = risk_score_history THEN ScoreHistory(val)
    ELSE val

\* the object built for one data line; of two columns with the same header
\* the later one is the one kept
RowObject(headers, values) ==
    [h \in {headers[k] : k \in DOMAIN headers} |->
        LET i == CHOOSE k \in DOMAIN headers :
                     /\ headers[k] = h
                     /\ \A j \in DOMAIN headers : headers[j] = h => j <= k
        IN  FieldValue(h, CellValue(values, i))]

\* parseCSVData that reads the headers of a content without a data line
parseCSVDataFromOneLine(content) ==
    LET lines == SelectSeq(SplitLines(content), IsNotBlank)
    IN  IF Len(lines) < 1 THEN [headers |-> <<>>, data |-> <<>>]
        ELSE LET headers == HeaderNames(lines[1])
             IN  [headers |-> headers,
                  data |-> [k \in 1..(Len(lines) - 1) |->
                               RowObject(headers, parseCSVLine(lines[k + 1]))]]

parseCSVData(content) ==
    LET lines == SelectSeq(SplitLines(content), IsNotBlank)
    IN  IF Len(lines) < 2 THEN [headers |-> <<>>, data |-> <<>>]
        ELSE LET headers == HeaderNames(lines[1])
             IN  [headers |-> headers,
                  data |-> [k \in 1..(Len(lines) - 1) |->
                               RowObject(headers, parseCSVLine(lines[k + 1]))]]

-----------------------------------------------------------------------------
(* types.ts and constants.ts: the records and the default data.  Of each   *)
(* record the model keeps the properties some function or handler reads.   *)

Account(id) == (account_id :> id)

Customer(id, history) == (customer_id :> id) @@ (risk_score_history :> history)

Invoice(id, customer, due, balance) ==
    (invoice_id :> id) @@ (customer_id :> customer) @@ (due_date :> due)
        @@ (balance_due :> balance)

Transaction(id, debit, credit) ==
    (transaction_id :> id) @@ (debit_account_id :> debit)
        @@ (credit_account_id :> credit)

ViewState == {"DASHBOARD", "COMPLIANCE", "AGING", "AI_RISK", "UPLOAD"}

MOCK_COA ==
    <<Account(<<"1", "1", "0", "0">>),
      Account(<<"1", "2", "0", "0">>),
      Account(<<"1", "3", "0", "0">>),
      Account(<<"4", "0", "0", "0">>),
      Account(<<"5", "0", "0", "0">>)>>

MOCK_CUSTOMERS ==
    <<Customer(<<"C", "U", "S", "T", "-", "0", "0", "1">>, <<Num(10), Num(12), Num(10)>>),
      Customer(<<"C", "U", "S", "T", "-", "0", "0", "2">>, <<Num(20), Num(25), Num(40)>>),
      Customer(<<"C", "U", "S", "T", "-", "0", "0", "3">>, <<Num(5), Num(5), Num(5)>>)>>

MOCK_INVOICES ==
    <<Invoice(<<"I", "N", "V", "-", "1", "0", "0", "1">>,
              <<"C", "U", "S", "T", "-", "0", "0", "1">>,
              <<"2", "0", "2", "4", "-", "0", "5", "-", "3", "1">>, Num(5000)),
      Invoice(<<"I", "N", "V", "-", "0", "9", "0", "0">>,
              <<"C", "U", "S", "T", "-", "0", "0", "2">>,
              <<"2", "0", "2", "4", "-", "0", "3", "-", "3", "1">>, Num(10000)),
      Invoice(<<"I", "N", "V", "-", "0", "8", "5", "0">>,
              <<"C", "U", "S", "T", "-", "0", "0", "2">>,
              <<"2", "0", "2", "3", "-", "1", "2", "-", "3", "1">>, Num(8500)),
      Invoice(<<"I", "N", "V", "-", "0", "8", "0", "0">>,
              <<"C", "U", "S", "T", "-", "0", "0", "3">>,
              <<"2", "0", "2", "4", "-", "0", "2", "-", "1", "5">>, Num(0))>>

MOCK_TRANSACTIONS ==
    <<Transaction(<<"T", "X", "N", "-", "0", "0", "1">>,
                  <<"1", "2", "0", "0">>, <<"4", "0", "0", "0">>),
      Transaction(<<"T", "X", "N", "-", "0", "0", "2">>,
                  <<"1", "1", "0", "0">>, <<"1", "2", "0", "0">>),
      Transaction(<<"T", "X", "N", "-", "E", "R", "R", "-", "0", "1">>,
                  <<"9", "9", "9", "9">>, <<"4", "0", "0", "0">>),
      Transaction(<<"T", "X", "N", "-", "E", "R", "R", "-", "0", "2">>,
                  <<"1", "2", "0", "0">>, <<"4", "0", "0", "5">>)>>

\* a reference date one day earlier
referenceDateJune30 == <<"2", "0", "2", "4", "-", "0", "6", "-", "3", "0">>

\* const referenceDate = '2024-07-01'
referenceDate == <<"2", "0", "2", "4", "-", "0", "7", "-", "0", "1">>

SeqsUpTo(S, n) == UNION {[1..k -> S] : k \in 0..n}

-----------------------------------------------------------------------------
(* App: the computed values.  A useMemo cell keeps the dependency list it  *)
(* was computed for and recomputes when a render sees another list.        *)

useMemo(cell, deps, value) ==
    IF cell.deps = deps THEN cell ELSE [deps |-> deps, value |-> value]

\* a dependency list that leaves the chart of accounts out
ComplianceDepsTransactionsOnly(txns, accounts) == <<txns>>

\* [transactions, coa]
ComplianceDeps(txns, accounts) == <<txns, accounts>>

\* [invoices, referenceDate]
AgingDeps(invs, refDate) == <<invs, refDate>>

complianceIssues == complianceMemo.value

agingData == agingMemo.value

\* One render of App after the state setters of a handler have run
Render ==
    /\ complianceMemo' =
           useMemo(complianceMemo, ComplianceDeps(transactions', coa'),
                   checkCoaCompliance(transactions', coa'))
    /\ agingMemo' =
           useMemo(agingMemo, AgingDeps(invoices', referenceDate),
                   calculateAllowance(invoices', referenceDate))

NoCall == [fn |-> "none", args |-> <<>>, returned |-> FALSE, ret |-> <<>>]

NoUpload == [pc |-> "idle", files |-> <<>>, i |-> 0, loadedInfo |-> <<>>,
             alert |-> "none"]

\* The useState initial values and the first evaluation of the useMemo cells
StateInit ==
    /\ transactions = MOCK_TRANSACTIONS
    /\ invoices = MOCK_INVOICES
    /\ customers = MOCK_CUSTOMERS
    /\ coa = MOCK_COA
    /\ currentView = "DASHBOARD"
    /\ complianceMemo =
           [deps |-> ComplianceDeps(MOCK_TRANSACTIONS, MOCK_COA),
            value |-> checkCoaCompliance(MOCK_TRANSACTIONS, MOCK_COA)]
    /\ agingMemo =
           [deps |-> AgingDeps(MOCK_INVOICES, referenceDate),
            value |-> calculateAllowance(MOCK_INVOICES, referenceDate)]
    /\ selectedCustomer = <<>>
    /\ aiAnalysis = <<>>
    /\ isAnalyzing = FALSE
    /\ summaryReport = <<>>
    /\ requests = <<>>

\* The first render of App, no file selected yet
AppInit == StateInit /\ upload = NoUpload

\* handleResetData, the user confirming the dialog
handleResetData ==
    /\ transactions' = MOCK_TRANSACTIONS
    /\ invoices' = MOCK_INVOICES
    /\ customers' = MOCK_CUSTOMERS
    /\ coa' = MOCK_COA
    /\ Render
    /\ UNCHANGED <<currentView, upload, aiVars, call>>

\* a sidebar button: setCurrentView(view)
Navigate ==
    \E view \in ViewState :
        /\ currentView' = view
        /\ UNCHANGED <<transactions, invoices, customers, coa, upload, aiVars, call>>
        /\ Render

-----------------------------------------------------------------------------
(* App: handleFileUpload.  A File is its name, its text, and json: what    *)
(* JSON.parse(text) makes of the text, either a throw or the parsed object *)
(* as a function from its property names.  The properties of the parsed    *)
(* objects of the model are arrays, which are truthy even when empty; a    *)
(* top-level null throws at json.transactions inside the same try, and is  *)
(* a file whose json does not parse.                                       *)

File(name, text, json) == [name |-> name, text |-> text, json |-> json]

JsonThrows == [ok |-> FALSE, value |-> <<>>]

JsonObject(obj) == [ok |-> TRUE, value |-> obj]

\* s.endsWith(suffix)
EndsWith(s, suffix) ==
    /\ Len(s) >= Len(suffix)
    /\ SubSeq(s, Len(s) - Len(suffix) + 1, Len(s)) = suffix

\* headers.includes(h)
Includes(headers, h) == \E k \in DOMAIN headers : headers[k] = h

\* The four useState values the handler sets, with its local loadedInfo
StoreOf(t, i, c, a, info) ==
    [transactions |-> t, invoices |-> i, customers |-> c, coa |-> a,
     loadedInfo |-> info]

\* if (json[key]) { set(json[key]); loadedInfo.push(label) }
JsonSet(st, json, key, label) ==
    IF key \in DOMAIN json
    THEN [st EXCEPT ![key] = json[key], !.loadedInfo = Append(@, label)]
    ELSE st

\* the try block of a .json file
ApplyJson(st, file) ==
    IF ~file.json.ok THEN st
    ELSE LET json == file.json.value
             s1 == JsonSet(st, json, "transactions", "Transactions (JSON)")
             s2 == JsonSet(s1, json, "invoices", "Invoices (JSON)")
             s3 == JsonSet(s2, json, "customers", "Customers (JSON)")
         IN  JsonSet(s3, json, "coa", "COA (JSON)")

\* the header chain tested in the opposite order
DetectCsvTransactionsFirst(headers) ==
    IF Includes(headers, transaction_id) /\ Includes(headers, debit_account_id)
    THEN "transactions"
    ELSE IF Includes(headers, invoice_id) /\ Includes(headers, balance_due)
    THEN "invoices"
    ELSE IF Includes(headers, customer_id) /\ Includes(headers, risk_score_history)
    THEN "customers"
    ELSE IF Includes(headers, account_id) /\ Includes(headers, account_type)
    THEN "coa"
    ELSE "none"

\* the record type the header chain of a .csv file selects
DetectCsv(headers) ==
    IF Includes(headers, account_id) /\ Includes(headers, account_type)
    THEN "coa"
    ELSE IF Includes(headers, customer_id) /\ Includes(headers, risk_score_history)
    THEN "customers"
    ELSE IF Includes(headers, invoice_id) /\ Includes(headers, balance_due)
    THEN "invoices"
    ELSE IF Includes(headers, transaction_id) /\ Includes(headers, debit_account_id)
    THEN "transactions"
    ELSE "none"

CsvLabel(type) ==
    CASE type = "coa" -> "COA (CSV)"
      [] type = "customers" -> "Customers (CSV)"
      [] type = "invoices" -> "Invoices (CSV)"
      [] type = "transactions" -> "Transactions (CSV)"

\* a branch that falls back to Transactions when no rule matches
ApplyCsvDefaultsToTransactions(st, file) ==
    LET parsed == parseCSVData(file.text)
        type == DetectCsv(parsed.headers)
    IN  IF type = "none" THEN [st EXCEPT !.transactions = parsed.data]
        ELSE [st EXCEPT ![type] = parsed.data,
                        !.loadedInfo = Append(@, CsvLabel(type))]

\* the branch of a .csv file
ApplyCsv(st, file) ==
    LET parsed == parseCSVData(file.text)
        type == DetectCsv(parsed.headers)
    IN  IF type = "none" THEN st
        ELSE [st EXCEPT ![type] = parsed.data,
                        !.loadedInfo = Append(@, CsvLabel(type))]

\* One pass of the loop body, after file.text() has resolved
ApplyFile(st, file) ==
    IF EndsWith(file.name, <<".", "j", "s", "o", "n">>) THEN ApplyJson(st, file)
    ELSE IF EndsWith(file.name, <<".", "c", "s", "v">>) THEN ApplyCsv(st, file)
    ELSE st

\* The handler after its return: the alert it has shown, and the file input
\* emptied (fileInputRef.current.value = '')
Returned(loadedInfo, alert) ==
    [pc |-> "returned", files |-> <<>>, i |-> 0, loadedInfo |-> loadedInfo,
     alert |-> alert]

\* a handler that reports on an empty selection as well
SelectedReportsEmpty(files) ==
    IF Len(files) = 0 THEN Returned(<<>>, "nothing recognized")
    ELSE [pc |-> "reading", files |-> files, i |-> 0, loadedInfo |-> <<>>,
          alert |-> "none"]

\* The handler up to its first await.  An empty selection returns at once.
Selected(files) ==
    IF Len(files) = 0 THEN Returned(<<>>, "none")
    ELSE [pc |-> "reading", files |-> files, i |-> 0, loadedInfo |-> <<>>,
          alert |-> "none"]

\* The handler from one resolved file.text() to the next await; after the
\* last file the loop ends and the alert and the view change follow in the
\* same turn.
ProcessFile ==
    /\ upload.pc = "reading"
    /\ LET file == upload.files[upload.i + 1]
           st == ApplyFile(StoreOf(transactions, invoices, customers, coa,
                                   upload.loadedInfo), file)
           last == upload.i + 1 >= Len(upload.files)
       IN  /\ transactions' = st.transactions
           /\ invoices' = st.invoices
           /\ customers' = st.customers
           /\ coa' = st.coa
           /\ upload' =
                  IF ~last
                  THEN [upload EXCEPT !.i = @ + 1, !.loadedInfo = st.loadedInfo]
                  ELSE IF Len(st.loadedInfo) > 0
                       THEN Returned(st.loadedInfo, "success")
                       ELSE Returned(st.loadedInfo, "nothing recognized")
           /\ currentView' = IF last /\ Len(st.loadedInfo) > 0
                             THEN "DASHBOARD" ELSE currentView
    /\ Render
    /\ UNCHANGED <<aiVars, call>>

-----------------------------------------------------------------------------
(* The files the user of the model can select.                             *)

MaxFiles == 3

CoaCsvText ==
    <<"A", "c", "c", "o", "u", "n", "t", "_", "I", "D", ",", "\"", "A", "C",
      "C", "O", "U", "N", "T", "_", "N", "A", "M", "E", "\"", ",", " ", "a",
      "c", "c", "o", "u", "n", "t", "_", "t", "y", "p", "e", " ", "\r",
      "\n", "1", "2", "0", "0", ",", "A", "R", ",", "A", "s", "s", "e", "t",
      "\r", "\n", "\r", "\n", "4", "0", "0", "5", ",", "\"", "M", "i", "s",
      "c", ",", " ", "R", "e", "v", "\"", ",", "R", "e", "v", "e", "n", "u",
      "e", "\r", "\n">>

NotesCsvText ==
    <<"i", "d", ",", "n", "o", "t", "e", "\n", "1", ",", "h", "e", "l", "l",
      "o", "\n">>

DataJsonText ==
    <<"{", "\"", "t", "r", "a", "n", "s", "a", "c", "t", "i", "o", "n", "s",
      "\"", ":", "[", "{", "\"", "t", "r", "a", "n", "s", "a", "c", "t",
      "i", "o", "n", "_", "i", "d", "\"", ":", "\"", "J", "1", "\"", ",",
      "\"", "d", "e", "b", "i", "t", "_", "a", "c", "c", "o", "u", "n", "t",
      "_", "i", "d", "\"", ":", "\"", "7", "0", "0", "0", "\"", ",", "\"",
      "c", "r", "e", "d", "i", "t", "_", "a", "c", "c", "o", "u", "n", "t",
      "_", "i", "d", "\"", ":", "\"", "1", "2", "0", "0", "\"", "}", "]",
      ",", "\"", "i", "n", "v", "o", "i", "c", "e", "s", "\"", ":", "[",
      "{", "\"", "i", "n", "v", "o", "i", "c", "e", "_", "i", "d", "\"",
      ":", "\"", "J", "9", "\"", ",", "\"", "c", "u", "s", "t", "o", "m",
      "e", "r", "_", "i", "d", "\"", ":", "\"", "C", "1", "\"", ",", "\"",
      "d", "u", "e", "_", "d", "a", "t", "e", "\"", ":", "\"", "2", "0",
      "2", "4", "-", "0", "6", "-", "1", "5", "\"", ",", "\"", "b", "a",
      "l", "a", "n", "c", "e", "_", "d", "u", "e", "\"", ":", "3", "0", "0",
      "}", "]", ",", "\"", "c", "o", "a", "\"", ":", "[", "{", "\"", "a",
      "c", "c", "o", "u", "n", "t", "_", "i", "d", "\"", ":", "\"", "7",
      "0", "0", "0", "\"", "}", "]", "}">>

BadJsonText ==
    <<"{", "\"", "c", "o", "a", "\"", ":", "[">>

ReadmeText ==
    <<"h", "e", "l", "l", "o">>

\* recognized as Accounts
CoaCsv == File(<<"c", "o", "a", ".", "c", "s", "v">>, CoaCsvText, JsonThrows)

\* no detection rule matches its headers
NotesCsv == File(<<"n", "o", "t", "e", "s", ".", "c", "s", "v">>, NotesCsvText, JsonThrows)

DataJson ==
    File(<<"d", "a", "t", "a", ".", "j", "s", "o", "n">>, DataJsonText,
         JsonObject(("transactions" :>
                        <<Transaction(<<"J", "1">>, <<"7", "0", "0", "0">>,
                                      <<"1", "2", "0", "0">>)>>)
                    @@ ("invoices" :>
                        <<Invoice(<<"J", "9">>, <<"C", "1">>,
                                  <<"2", "0", "2", "4", "-", "0", "6", "-", "1", "5">>,
                                  Num(300))>>)
                    @@ ("coa" :> <<Account(<<"7", "0", "0", "0">>)>>)))

\* JSON.parse throws
BadJson == File(<<"b", "a", "d", ".", "j", "s", "o", "n">>, BadJsonText, JsonThrows)

\* neither a .json nor a .csv name
Readme == File(<<"r", "e", "a", "d", "m", "e", ".", "t", "x", "t">>, ReadmeText, JsonThrows)

FileInputs == {CoaCsv, NotesCsv, DataJson, BadJson, Readme}

-----------------------------------------------------------------------------
(* The App: the handlers in any order, the continuation of an upload among *)
(* them.  The model keeps one batch in flight: the next change event of    *)
(* the file input is taken once the handler of the last one has returned.  *)
(* file.text() is taken to resolve.                                        *)

\* handleFileUpload, from the change event to the first await
handleFileUploadOf(inputs, n) ==
    /\ upload.pc # "reading"
    /\ \E files \in SeqsUpTo(inputs, n) : upload' = Selected(files)
    /\ UNCHANGED <<transactions, invoices, customers, coa, currentView,
                   aiVars, call>>
    /\ Render

handleFileUpload == handleFileUploadOf(FileInputs, MaxFiles)

Init == AppInit /\ call = NoCall

Next == handleFileUpload \/ ProcessFile \/ handleResetData \/ Navigate

Spec == Init /\ [][Next]_vars

-----------------------------------------------------------------------------
(* Function-level specifications: one call of a function on arguments      *)
(* drawn from bounded sets.                                                *)

Pending(fn, args) == [fn |-> fn, args |-> args, returned |-> FALSE, ret |-> <<>>]

MaxTransactions == 2

MaxAccounts == 2

MaxInvoices == 2

TransactionIdInputs == {<<"T", "1">>, <<"T", "2">>}

TxnAccountIdInputs == {<<"1">>, <<"9">>, Undefined}

CoaAccountIdInputs == {<<"1">>, <<"2">>, Undefined}

TransactionInputs ==
    {Transaction(t, d, c) : t \in TransactionIdInputs,
                            d \in TxnAccountIdInputs, c \in TxnAccountIdInputs}

AccountInputs == {Account(a) : a \in CoaAccountIdInputs}

InitCompliance ==
    /\ AppInit
    /\ call \in {Pending("checkCoaCompliance", <<t, a>>) :
                    t \in SeqsUpTo(TransactionInputs, MaxTransactions),
                    a \in SeqsUpTo(AccountInputs, MaxAccounts)}

ReturnCheckCoaCompliance ==
    /\ call.fn = "checkCoaCompliance" /\ ~call.returned
    /\ call' = [call EXCEPT !.returned = TRUE,
                            !.ret = checkCoaCompliance(call.args[1], call.args[2])]
    /\ UNCHANGED appVars

NextCompliance == ReturnCheckCoaCompliance

SpecCompliance == InitCompliance /\ [][NextCompliance]_vars

\* Whether the id is the account_id of no account of the chart
NotInChart(id, accounts) ==
    \A k \in DOMAIN accounts : StrField(accounts[k], account_id) # id

IssueCountOf(txn, accounts) ==
    (IF NotInChart(StrField(txn, debit_account_id), accounts) THEN 1 ELSE 0)
    + (IF NotInChart(StrField(txn, credit_account_id), accounts) THEN 1 ELSE 0)

\* The number of issues owed to the transactions before position i
RECURSIVE IssuesBefore(_, _, _)
IssuesBefore(txns, accounts, i) ==
    IF i <= 1 THEN 0
    ELSE IssuesBefore(txns, accounts, i - 1) + IssueCountOf(txns[i - 1], accounts)

IsIssue(issue, txn, type) ==
    /\ issue.transaction_id = StrField(txn, transaction_id)
    /\ issue.issue_type = type
    /\ issue.severity = "High"

\* C1: checkCoaCompliance returns, in the order of the transactions, one
\* 'Invalid Debit Account' issue of severity High for a debit_account_id
\* that is no account_id of the chart, then one 'Invalid Credit Account'
\* issue of severity High for such a credit_account_id, and nothing else:
\* none for a transaction with both ids in the chart, two (debit first) for
\* one with both ids absent.
C1_IssuesInInputOrder ==
    (call.fn = "checkCoaCompliance" /\ call.returned) =>
        LET txns == call.args[1]
            accounts == call.args[2]
            issues == call.ret
        IN  /\ Len(issues) = IssuesBefore(txns, accounts, Len(txns) + 1)
            /\ \A i \in DOMAIN txns :
                 LET at == IssuesBefore(txns, accounts, i)
                     noDebit == NotInChart(StrField(txns[i], debit_account_id),
                                           accounts)
                     noCredit == NotInChart(StrField(txns[i], credit_account_id),
                                            accounts)
                 IN  /\ noDebit =>
                           IsIssue(issues[at + 1], txns[i], "Invalid Debit Account")
                     /\ noCredit =>
                           IsIssue(issues[at + (IF noDebit THEN 2 ELSE 1)],
                                   txns[i], "Invalid Credit Account")

\* A call has returned for a transaction with both ids absent followed by
\* one with both ids in the chart: two issues, debit first.
C1_Witness ==
    /\ call.fn = "checkCoaCompliance" /\ call.returned
    /\ Len(call.args[1]) = 2 /\ Len(call.args[2]) > 0
    /\ NotInChart(StrField(call.args[1][1], debit_account_id), call.args[2])
    /\ NotInChart(StrField(call.args[1][1], credit_account_id), call.args[2])
    /\ IssueCountOf(call.args[1][2], call.args[2]) = 0
    /\ Len(call.ret) = 2
    /\ call.ret[1].issue_type = "Invalid Debit Account"
    /\ call.ret[2].issue_type = "Invalid Credit Account"

-----------------------------------------------------------------------------
(* calculateAllowance on bounded arguments *)

DigitChar(n) ==
    CASE n = 0 -> "0" [] n = 1 -> "1" [] n = 2 -> "2" [] n = 3 -> "3"
      [] n = 4 -> "4" [] n = 5 -> "5" [] n = 6 -> "6" [] n = 7 -> "7"
      [] n = 8 -> "8" [] n = 9 -> "9"

TwoDigits(n) == <<DigitChar(n \div 10), DigitChar(n % 10)>>

\* The string YYYY-MM-DD of a civil date
IsoDate(y, m, d) ==
    TwoDigits(y \div 100) \o TwoDigits(y % 100) \o <<"-">> \o TwoDigits(m)
        \o <<"-">> \o TwoDigits(d)

Noon == <<"T", "1", "2", ":", "0", "0", ":", "0", "0", "Z">>

\* Due dates that, with the two reference dates below, lie on both sides of
\* every bucket boundary (ages -1, 0, 1, 30, 31, 60, 61, 90, 91, 92), two
\* with a time of day (half a day more), and one string that is no date
DueDateInputs ==
    {IsoDate(2024, 7, 2), IsoDate(2024, 7, 1), IsoDate(2024, 6, 30),
     IsoDate(2024, 6, 1), IsoDate(2024, 5, 31), IsoDate(2024, 5, 2),
     IsoDate(2024, 5, 1), IsoDate(2024, 3, 31),
     IsoDate(2024, 5, 31) \o Noon, IsoDate(2024, 7, 1) \o Noon,
     <<"n", "/", "a">>}

BalanceInputs == {Num(-5), Num(0), Num(7), Num(5000)}

InvoiceInputs ==
    {Invoice(<<"I">>, <<"C">>, d, b) : d \in DueDateInputs, b \in BalanceInputs}

ReferenceDateInputs == {referenceDate, IsoDate(2024, 7, 31)}

InitAging ==
    /\ AppInit
    /\ call \in {Pending("calculateAllowance", <<invs, ref>>) :
                    invs \in SeqsUpTo(InvoiceInputs, MaxInvoices),
                    ref \in ReferenceDateInputs}

ReturnCalculateAllowance ==
    /\ call.fn = "calculateAllowance" /\ ~call.returned
    /\ call' = [call EXCEPT !.returned = TRUE,
                            !.ret = calculateAllowance(call.args[1], call.args[2])]
    /\ UNCHANGED appVars

NextAging == ReturnCalculateAllowance

SpecAging == InitAging /\ [][NextAging]_vars

AgingReturned == call.fn = "calculateAllowance" /\ call.returned

HasPositiveBalance(inv) ==
    IsNum(NumField(inv, balance_due)) /\ NumField(inv, balance_due).v > 0

\* referenceDate - due_date in seconds, when both are dates
HasAge(inv, ref) ==
    IsNum(DateGetTime(ref)) /\ IsNum(DateGetTime(StrField(inv, due_date)))

Elapsed(inv, ref) ==
    DateGetTime(ref).v - DateGetTime(StrField(inv, due_date)).v

\* age = ceil(elapsed / 1 day): the least whole number of days covering it
AgeOf(inv, ref) ==
    LET e == Elapsed(inv, ref)
        whole == e \div SecondsPerDay
    IN  CHOOSE n \in (whole - 1)..(whole + 1) :
            /\ n * SecondsPerDay >= e
            /\ (n - 1) * SecondsPerDay < e

AgeInBucket(age, k) ==
    CASE k = 1 -> age <= 0
      [] k = 2 -> 1 <= age /\ age <= 30
      [] k = 3 -> 31 <= age /\ age <= 60
      [] k = 4 -> 61 <= age /\ age <= 90
      [] k = 5 -> age > 90

RECURSIVE SumOver(_, _)
SumOver(f, S) ==
    IF S = {} THEN 0
    ELSE LET x == CHOOSE y \in S : TRUE IN f[x] + SumOver(f, S \ {x})

C3_PositiveBalancesCountedOnce ==
    AgingReturned =>
        LET invs == call.args[1]
            buckets == call.ret
            positive == {i \in DOMAIN invs : HasPositiveBalance(invs[i])}
        IN  /\ SumOver([k \in 1..5 |-> buckets[k].invoice_count], 1..5)
                   = Cardinality(positive)
            /\ \A k \in 1..5 : IsNum(buckets[k].total_amount)
            /\ SumOver([k \in 1..5 |-> buckets[k].total_amount.v], 1..5)
                   = SumOver([i \in positive |-> NumField(invs[i], balance_due).v],
                             positive)

\* calculateAllowance has returned for a list holding a paid invoice
\* (balance_due 0) and an open one: the buckets count one invoice only.
C3_Witness ==
    /\ AgingReturned
    /\ Len(call.args[1]) = 2
    /\ NumField(call.args[1][1], balance_due) = Num(0)
    /\ NumField(call.args[1][2], balance_due) = Num(5000)
    /\ SumOver([k \in 1..5 |-> call.ret[k].invoice_count], 1..5) = 1

\* C4: the result is the five buckets Current, 1-30 Days, 31-60 Days,
\* 61-90 Days, 90+ Days in this order with the rates 1%, 5%, 10%, 25%, 50%
\* (held in percent), and each estimated_allowance (held in hundredths) is
\* the bucket's total_amount times its allowance_rate: 0 for an empty
\* bucket, 500 for a 31-60 Days bucket holding the single balance 5000.
C4_FiveBucketsFixedRates ==
    AgingReturned =>
        LET buckets == call.ret
        IN  /\ Len(buckets) = 5
            /\ \A k \in 1..5 :
                 /\ buckets[k].bucket =
                        <<"Current", "1-30 Days", "31-60 Days", "61-90 Days",
                          "90+ Days">>[k]
                 /\ buckets[k].allowance_rate = Num(<<1, 5, 10, 25, 50>>[k])
                 /\ IsNum(buckets[k].total_amount)
                 /\ buckets[k].estimated_allowance =
                        Num(buckets[k].total_amount.v * <<1, 5, 10, 25, 50>>[k])
                 /\ buckets[k].invoice_count = 0 =>
                        buckets[k].estimated_allowance = Num(0)
            /\ (buckets[3].invoice_count = 1
                /\ buckets[3].total_amount = Num(5000))
                   => buckets[3].estimated_allowance = Num(500 * 100)

\* calculateAllowance has returned for the single invoice due 2024-05-31
\* with balance 5000 at reference 2024-07-01: age 31, allowance 500.
C4_Witness ==
    /\ AgingReturned
    /\ call.args[2] = referenceDate
    /\ Len(call.args[1]) = 1
    /\ StrField(call.args[1][1], due_date) = IsoDate(2024, 5, 31)
    /\ call.ret[3].total_amount = Num(5000)
    /\ call.ret[3].estimated_allowance = Num(50000)
    /\ call.ret[1].estimated_allowance = Num(0)

-----------------------------------------------------------------------------
(* parseCSVLine on bounded lines *)

MaxLineLength == 6

\* A letter, the comma, the double quote and the blank
LineCharInputs == {"a", ",", "\"", " "}

InitCsvLine ==
    /\ AppInit
    /\ call \in {Pending("parseCSVLine", <<line>>) :
                    line \in SeqsUpTo(LineCharInputs, MaxLineLength)}

ReturnParseCSVLine ==
    /\ call.fn = "parseCSVLine" /\ ~call.returned
    /\ call' = [call EXCEPT !.returned = TRUE,
                            !.ret = parseCSVLine(call.args[1])]
    /\ UNCHANGED appVars

NextCsvLine == ReturnParseCSVLine

SpecCsvLine == InitCsvLine /\ [][NextCsvLine]_vars

QuotesBefore(line, i) == Cardinality({k \in 1..(i - 1) : line[k] = "\""})

\* The positions of the commas preceded by an even number of double quotes
OuterCommas(line) ==
    {i \in DOMAIN line : line[i] = "," /\ QuotesBefore(line, i) % 2 = 0}

\* The j-th stretch of the line between two such commas (or the line's ends)
Stretch(line, j) ==
    LET commas == OuterCommas(line)
        from == IF j = 1 THEN 0
                ELSE CHOOSE i \in commas :
                         Cardinality({c \in commas : c < i}) = j - 2
        to == IF j = Cardinality(commas) + 1 THEN Len(line) + 1
              ELSE CHOOSE i \in commas :
                       Cardinality({c \in commas : c < i}) = j - 1
    IN  SubSeq(line, from + 1, to - 1)

IsNotQuote(c) == c # "\""

\* C10: parseCSVLine splits a line only at the commas outside quoted spans,
\* each double quote toggling quote mode: it returns one field more than
\* there are commas preceded by an even number of double quotes, each field
\* being the text between two such commas without its double quotes and
\* trimmed, so no field begins or ends with a double quote or white space,
\* and the line "a, a" in quotes comes back as the single value a, a.
C10_SplitsOutsideQuotes ==
    (call.fn = "parseCSVLine" /\ call.returned) =>
        LET line == call.args[1]
            fields == call.ret
        IN  /\ Len(fields) = 1 + Cardinality(OuterCommas(line))
            /\ \A j \in DOMAIN fields :
                 /\ fields[j] = Trim(SelectSeq(Stretch(line, j), IsNotQuote))
                 /\ fields[j] # <<>> =>
                        /\ fields[j][1] \notin WhiteSpace \cup {"\""}
                        /\ fields[j][Len(fields[j])] \notin WhiteSpace \cup {"\""}
            /\ line = <<"\"", "a", ",", " ", "a", "\"">>
                   => fields = << <<"a", ",", " ", "a">> >>

\* parseCSVLine has returned for the quoted field that holds a comma
C10_Witness ==
    /\ call.fn = "parseCSVLine" /\ call.returned
    /\ call.args[1] = <<"\"", "a", ",", " ", "a", "\"">>
    /\ call.ret = << <<"a", ",", " ", "a">> >>

-----------------------------------------------------------------------------
(* Claims about the App.                                                   *)

StoreTypes == {"transactions", "invoices", "customers", "coa"}

IsJsonFile(file) == EndsWith(file.name, <<".", "j", "s", "o", "n">>)

IsCsvFile(file) == ~IsJsonFile(file) /\ EndsWith(file.name, <<".", "c", "s", "v">>)

\* the file holds a dataset of the type
Yields(file, type) ==
    \/ IsJsonFile(file) /\ file.json.ok /\ type \in DOMAIN file.json.value
    \/ IsCsvFile(file) /\ DetectCsv(parseCSVData(file.text).headers) = type

Dataset(file, type) ==
    IF IsJsonFile(file) THEN file.json.value[type]
    ELSE parseCSVData(file.text).data

Recognized(file) == \E type \in StoreTypes : Yields(file, type)

\* malformed JSON, or CSV headers that match no record type
FailsToParse(file) ==
    \/ IsJsonFile(file) /\ ~file.json.ok
    \/ IsCsvFile(file) /\ DetectCsv(parseCSVData(file.text).headers) = "none"

PrimarySets == [transactions |-> transactions, invoices |-> invoices,
                customers |-> customers, coa |-> coa]

\* the step of the batch that applies its next file
FileStep == upload.pc = "reading" /\ upload' # upload

\* the step of a handler that returns without having read a file
EmptyStep == upload.pc # "reading" /\ upload' # upload /\ upload'.pc = "returned"

CurrentFile == upload.files[upload.i + 1]

\* C5: in every state the App can reach by uploads, replacements and
\* resets, complianceIssues is checkCoaCompliance of the current
\* transactions and chart of accounts, and agingData is calculateAllowance
\* of the current invoices and the reference date.
C5_DerivedNeverStale ==
    /\ complianceIssues = checkCoaCompliance(transactions, coa)
    /\ agingData = calculateAllowance(invoices, referenceDate)

\* uploads have replaced transactions, accounts and invoices, and both
\* derived collections differ from those of the default data
C5_Witness ==
    /\ upload.pc = "returned"
    /\ transactions # MOCK_TRANSACTIONS
    /\ coa # MOCK_COA
    /\ invoices # MOCK_INVOICES
    /\ complianceIssues # checkCoaCompliance(MOCK_TRANSACTIONS, MOCK_COA)
    /\ agingData # calculateAllowance(MOCK_INVOICES, referenceDate)

\* C9: the step that applies a file that fails to parse (malformed JSON, or
\* CSV whose headers match no record type) leaves all four primary sets and
\* the list of loaded datasets as they were, and when files remain the
\* handler goes on to the next one; the handler returns only with the step
\* of the last file of the batch.
C9_FailedFileNotApplied ==
    /\ [][(FileStep /\ FailsToParse(CurrentFile)) =>
            /\ PrimarySets' = PrimarySets
            /\ upload'.loadedInfo = upload.loadedInfo
            /\ (upload.i + 1 < Len(upload.files) =>
                    /\ upload'.pc = "reading"
                    /\ upload'.files = upload.files
                    /\ upload'.i = upload.i + 1)]_vars
    /\ [][(FileStep /\ upload'.pc = "returned") =>
            upload.i + 1 = Len(upload.files)]_vars

\* in a batch of three files the first failed to parse, the accounts of the
\* second are now the chart of accounts, and the third is still to be read
C9_Witness ==
    /\ upload.pc = "reading"
    /\ Len(upload.files) = 3
    /\ upload.i = 2
    /\ FailsToParse(upload.files[1])
    /\ Yields(upload.files[2], "coa")
    /\ coa = Dataset(upload.files[2], "coa")
    /\ coa # MOCK_COA

NoFileRecognized == \A k \in DOMAIN upload.files : ~Recognized(upload.files[k])

\* C8 as stated: a handler that returns has reported 'nothing recognized'
\* if and only if no file of its batch yielded a recognized dataset.
C8_ReportsNothingIffNoneRecognized ==
    [][((FileStep \/ EmptyStep) /\ upload'.pc = "returned") =>
          (upload'.alert = "nothing recognized" <=> NoFileRecognized)]_vars

\* C8, amended: a batch of at least one file reports 'nothing recognized'
\* if and only if none of its files yielded a recognized dataset, and
\* success otherwise; every step of a batch none of whose files is
\* recognized leaves the four primary sets and the current view as they
\* were, and the handler returns with its last file; the step that ends a
\* batch with a recognized dataset reports success and sets the view to the
\* dashboard.  On an empty file list the handler returns at once, reports
\* nothing and changes nothing.
C8_ReportsOutcomeOfBatch ==
    /\ [][(FileStep /\ upload'.pc = "returned") =>
            /\ upload'.alert = "nothing recognized" <=> NoFileRecognized
            /\ upload'.alert = "success" <=> ~NoFileRecognized]_vars
    /\ [][(FileStep /\ NoFileRecognized) =>
            /\ PrimarySets' = PrimarySets
            /\ currentView' = currentView
            /\ (upload.i + 1 = Len(upload.files) =>
                    /\ upload'.pc = "returned"
                    /\ upload'.alert = "nothing recognized")]_vars
    /\ [][(FileStep /\ ~NoFileRecognized /\ upload.i + 1 = Len(upload.files)) =>
            /\ upload'.pc = "returned"
            /\ upload'.alert = "success"
            /\ currentView' = "DASHBOARD"]_vars
    /\ [][EmptyStep =>
            /\ upload'.alert = "none"
            /\ PrimarySets' = PrimarySets
            /\ currentView' = currentView]_vars

\* a batch has returned with the 'nothing recognized' report while the
\* user looks at the upload view and the sets are not the default data
C8_Witness ==
    /\ upload.pc = "returned"
    /\ upload.alert = "nothing recognized"
    /\ upload.loadedInfo = <<>>
    /\ currentView = "UPLOAD"
    /\ coa # MOCK_COA

LastYielding(type) ==
    CHOOSE k \in DOMAIN upload.files :
        /\ Yields(upload.files[k], type)
        /\ \A j \in DOMAIN upload.files :
               Yields(upload.files[j], type) => j <= k

\* C6, step by step: each step of a batch applies the next file of the
\* batch; a set whose type the file yields becomes exactly the file's
\* dataset, and the other sets stay as they were.
C6_StepReplacesWholesale ==
    [][FileStep =>
          \A type \in StoreTypes :
              PrimarySets'[type] =
                  IF Yields(CurrentFile, type) THEN Dataset(CurrentFile, type)
                  ELSE PrimarySets[type]]_vars

\* C6: each step of a batch applies the next file of the batch, a
\* recognized dataset replacing the set of its type; and when the batch
\* returns, a set whose type two or more files of the batch yield is
\* exactly the dataset of the last of them.
C6_LastFileOfTypeWins ==
    [][FileStep =>
          /\ \A type \in StoreTypes :
                 PrimarySets'[type] =
                     IF Yields(CurrentFile, type) THEN Dataset(CurrentFile, type)
                     ELSE PrimarySets[type]
          /\ upload'.pc = "returned" =>
                 \A type \in StoreTypes :
                     Cardinality({k \in DOMAIN upload.files :
                                     Yields(upload.files[k], type)}) >= 2
                         => PrimarySets'[type] =
                                Dataset(upload.files[LastYielding(type)], type)]_vars

\* the first two files of a batch of three both yielded accounts, and the
\* chart of accounts is the dataset of the second
C6_Witness ==
    /\ upload.pc = "reading"
    /\ Len(upload.files) = 3
    /\ upload.i = 2
    /\ Yields(upload.files[1], "coa")
    /\ Yields(upload.files[2], "coa")
    /\ upload.files[1] # upload.files[2]
    /\ coa = Dataset(upload.files[2], "coa")

-----------------------------------------------------------------------------
(* One .csv file whose header row is drawn from the header names the       *)
(* detection rules read, in any order and either letter case, selected in  *)
(* the App as it starts.                                                   *)

MaxHeaderCells == 4

HeaderCellInputs ==
    {account_id, account_type, customer_id, risk_score_history, invoice_id,
     balance_due, transaction_id, debit_account_id, account_name}

UpperLetters ==
    {"A", "B", "C", "D", "E", "F", "G", "H", "I", "J", "K", "L", "M", "N",
     "O", "P", "Q", "R", "S", "T", "U", "V", "W", "X", "Y", "Z"}

UpperChar(c) ==
    IF \E u \in UpperLetters : LowerChar(u) = c
    THEN CHOOSE u \in UpperLetters : LowerChar(u) = c
    ELSE c

Cased(cell, upper) ==
    IF upper THEN [k \in DOMAIN cell |-> UpperChar(cell[k])] ELSE cell

RECURSIVE JoinCells(_)
JoinCells(cells) ==
    IF cells = <<>> THEN <<>>
    ELSE IF Len(cells) = 1 THEN cells[1]
    ELSE cells[1] \o <<",">> \o JoinCells(Tail(cells))

\* the header row and, when hasData, one data line whose k-th cell is the
\* digit k and the first letter of the k-th header cell as the row writes it
CsvTextOf(header, upper, hasData) ==
    LET first == JoinCells([k \in DOMAIN header |-> Cased(header[k], upper)])
        line == JoinCells([k \in DOMAIN header |->
                              <<DigitChar(k), Cased(header[k], upper)[1]>>])
    IN  first \o <<"\n">> \o (IF hasData THEN line \o <<"\n">> ELSE <<>>)

HeaderRowInputs ==
    {h \in SeqsUpTo(HeaderCellInputs, MaxHeaderCells) :
        \A i, j \in DOMAIN h : i # j => h[i] # h[j]}

CsvFileInputs ==
    {File(<<"u", "p", "l", "o", "a", "d", ".", "c", "s", "v">>,
          CsvTextOf(header, upper, hasData), JsonThrows) :
        header \in HeaderRowInputs, upper \in BOOLEAN, hasData \in BOOLEAN}

InitDetect ==
    /\ StateInit
    /\ call = NoCall
    /\ \E file \in CsvFileInputs : upload = Selected(<<file>>)

NextDetect == ProcessFile

SpecDetect == InitDetect /\ [][NextDetect]_vars

\* the non-blank lines of a payload
PayloadLines(file) == SelectSeq(SplitLines(file.text), IsNotBlank)

\* the lower-cased names of the header row of a payload
LoweredHeaders(file) ==
    IF PayloadLines(file) = <<>> THEN {}
    ELSE LET cells == SplitAt(PayloadLines(file)[1], ",")
         IN  {toLowerCase(Unquote(Trim(cells[k]))) : k \in DOMAIN cells}

\* the detection rules in the order of the claim
DetectionRules ==
    <<[type |-> "coa", first |-> account_id, second |-> account_type],
      [type |-> "customers", first |-> customer_id,
       second |-> risk_score_history],
      [type |-> "invoices", first |-> invoice_id, second |-> balance_due],
      [type |-> "transactions", first |-> transaction_id,
       second |-> debit_account_id]>>

RuleMatches(file, r) ==
    /\ DetectionRules[r].first \in LoweredHeaders(file)
    /\ DetectionRules[r].second \in LoweredHeaders(file)

\* the step interprets its file as the record type of rule r
InterpretedAs(file, r) ==
    LET type == DetectionRules[r].type
    IN  /\ PrimarySets'[type] = parseCSVData(file.text).data
        /\ \E k \in DOMAIN upload'.loadedInfo :
               /\ k > Len(upload.loadedInfo)
               /\ upload'.loadedInfo[k] = CsvLabel(type)

\* C7 as stated: the step that applies a .csv file interprets it as every
\* record type whose two header names are among its lower-cased header
\* names, and changes no primary set when no pair is.
C7_InterpretedByHeaderPairs ==
    [][(FileStep /\ IsCsvFile(CurrentFile)) =>
          /\ \A r \in DOMAIN DetectionRules :
                 RuleMatches(CurrentFile, r) => InterpretedAs(CurrentFile, r)
          /\ (\A r \in DOMAIN DetectionRules : ~RuleMatches(CurrentFile, r))
                 => PrimarySets' = PrimarySets]_vars

\* C7, amended: the step that applies a .csv file with two or more
\* non-blank lines interprets it by the first rule, in the order Accounts,
\* Customers, Invoices, Transactions, whose two header names are both among
\* its lower-cased header names, whatever the letter case and the column
\* order of the header row: the set of that type becomes the parsed rows
\* and the other three sets stay.  When no rule matches, or the file has
\* fewer than two non-blank lines, no primary set changes and nothing is
\* added to the loaded datasets.
C7_InterpretedByFirstMatchingRule ==
    [][(FileStep /\ IsCsvFile(CurrentFile)) =>
          LET matching == {r \in DOMAIN DetectionRules :
                              RuleMatches(CurrentFile, r)}
          IN  IF Len(PayloadLines(CurrentFile)) >= 2 /\ matching # {}
              THEN LET r == CHOOSE m \in matching : \A n \in matching : m <= n
                   IN  /\ InterpretedAs(CurrentFile, r)
                       /\ Len(upload'.loadedInfo) = Len(upload.loadedInfo) + 1
                       /\ \A type \in StoreTypes \ {DetectionRules[r].type} :
                              PrimarySets'[type] = PrimarySets[type]
              ELSE /\ PrimarySets' = PrimarySets
                   /\ upload'.loadedInfo = upload.loadedInfo]_vars

\* a file whose header row is BALANCE_DUE,INVOICE_ID, with one data line,
\* has replaced the invoices
C7_Witness ==
    /\ upload.pc = "returned"
    /\ upload.loadedInfo = <<"Invoices (CSV)">>
    /\ upload.alert = "success"
    /\ invoices = <<(balance_due :> Num(1)) @@ (invoice_id :> <<"2", "I">>)>>

-----------------------------------------------------------------------------
(* parseCSVData on bounded contents: a header row, then data lines, blank  *)
(* lines among them.                                                       *)

MaxCells == 2

MaxDataLines == 1

ColumnInputs == {balance_due, amount, risk_score_history, account_name}

\* a numeral; a blank and a quoted text that is no numeral; the empty cell
CellInputs == {<<"1", "2">>, <<" ", "\"", "x", ";", "7", "\"">>, <<>>}

CellSeqs(S) == SeqsUpTo(S, MaxCells) \ {<<>>}

\* the data lines of the model: rows of cells, and a line of blanks
DataLineInputs ==
    {JoinCells(cells) : cells \in CellSeqs(CellInputs)} \cup {<<" ", " ">>}

RECURSIVE JoinLines(_)
JoinLines(lines) ==
    IF lines = <<>> THEN <<>>
    ELSE lines[1] \o <<"\n">> \o JoinLines(Tail(lines))

\* the header row ends in "\r\n" and an empty line follows it
ContentInputs ==
    {JoinCells(header) \o <<"\r", "\n", "\n">> \o JoinLines(lines) :
        header \in CellSeqs(ColumnInputs),
        lines \in SeqsUpTo(DataLineInputs, MaxDataLines)}

InitCsvData ==
    /\ AppInit
    /\ call \in {Pending("parseCSVData", <<content>>) : content \in ContentInputs}

ReturnParseCSVData ==
    /\ call.fn = "parseCSVData" /\ ~call.returned
    /\ call' = [call EXCEPT !.returned = TRUE,
                            !.ret = parseCSVData(call.args[1])]
    /\ UNCHANGED appVars

NextCsvData == ReturnParseCSVData

SpecCsvData == InitCsvData /\ [][NextCsvData]_vars

\* the non-blank lines of a content
NonBlankLines(content) == SelectSeq(SplitLines(content), IsNotBlank)

\* the j-th cell of a line, without its double quotes and trimmed; absent
\* when the line has fewer cells
CellOf(line, j) ==
    IF j <= Cardinality(OuterCommas(line)) + 1
    THEN Trim(SelectSeq(Stretch(line, j), IsNotQuote))
    ELSE Undefined

IsNumeral(s) == s # <<>> /\ \A k \in DOMAIN s : s[k] \in Digits

\* the number a cell stands for; 0 for a cell that is absent or no numeral
NumberOfCell(cell) ==
    IF cell # Undefined /\ IsNumeral(cell) THEN Num(DigitsValue(cell, 1, 0))
    ELSE Num(0)

HistoryOfCell(cell) ==
    IF cell = Undefined \/ cell = <<>> THEN <<>>
    ELSE LET segments == SplitAt(cell, ";")
         IN  [k \in DOMAIN segments |-> NumberOfCell(segments[k])]

\* C11: parseCSVData returns one record per non-blank data line; under a
\* header named original_amount, amount_paid, balance_due or amount the
\* record holds a number, the cell's when the cell is a numeral and 0 when
\* it is unparseable or absent; under risk_score_history it holds the
\* ';'-separated segments as such numbers, and the empty sequence when the
\* cell is absent or empty; under every other header it holds the trimmed
\* text of the cell, or undefined when the row has fewer cells than headers.
\* Of two columns with one header the later one decides.
C11_OneRecordPerDataLine ==
    (call.fn = "parseCSVData" /\ call.returned) =>
        LET lines == NonBlankLines(call.args[1])
            headers == call.ret.headers
            data == call.ret.data
        IN  /\ Len(data) = IF Len(lines) < 2 THEN 0 ELSE Len(lines) - 1
            /\ \A k \in DOMAIN data :
                 /\ DOMAIN data[k] = {headers[i] : i \in DOMAIN headers}
                 /\ \A i \in DOMAIN headers :
                      (\A j \in DOMAIN headers : headers[j] = headers[i] => j <= i)
                      => LET cell == CellOf(lines[k + 1], i)
                             value == data[k][headers[i]]
                         IN  IF headers[i] \in {original_amount, amount_paid,
                                                balance_due, amount}
                             THEN IsNum(value) /\ value = NumberOfCell(cell)
                             ELSE IF headers[i] = risk_score_history
                             THEN value = HistoryOfCell(cell)
                             ELSE value = cell

\* a row of the single cell "x;7", quoted, under the headers balance_due
\* and risk_score_history: the number is 0 and the history is empty
C11_Witness ==
    /\ call.fn = "parseCSVData" /\ call.returned
    /\ call.ret.headers = <<balance_due, risk_score_history>>
    /\ NonBlankLines(call.args[1])[2] = <<" ", "\"", "x", ";", "7", "\"">>
    /\ call.ret.data =
           << (balance_due :> Num(0)) @@ (risk_score_history :> <<>>) >>

-----------------------------------------------------------------------------
(* services/geminiService and the two handlers of App that call it.  Every *)
(* call of a service function is a promise kept in `requests`, in the      *)
(* order the calls were made: pending while the service has not answered,  *)
(* fulfilled with the string the function returned, or rejected when the   *)
(* function threw before its try block.  The answer of the service to the  *)
(* n-th call is a text of its own, an empty text, or a failure.            *)

MaxRequests == 2

\* a customers array and an invoices array whose records leave fields out
PartialJsonText ==
    <<"{", "\"", "c", "u", "s", "t", "o", "m", "e", "r", "s", "\"", ":",
      "[", "{", "\"", "c", "u", "s", "t", "o", "m", "e", "r", "_", "i", "d",
      "\"", ":", "\"", "C", "9", "\"", "}", "]", ",", "\"", "i", "n", "v",
      "o", "i", "c", "e", "s", "\"", ":", "[", "{", "\"", "i", "n", "v",
      "o", "i", "c", "e", "_", "i", "d", "\"", ":", "\"", "J", "7", "\"",
      ",", "\"", "d", "u", "e", "_", "d", "a", "t", "e", "\"", ":", "\"",
      "2", "0", "2", "4", "-", "0", "6", "-", "1", "5", "\"", "}", "]", "}">>

PartialJson ==
    File(<<"p", "a", "r", "t", "i", "a", "l", ".", "j", "s", "o", "n">>, PartialJsonText,
         JsonObject(("customers" :> <<(customer_id :> <<"C", "9">>)>>)
                    @@ ("invoices" :>
                        <<(invoice_id :> <<"J", "7">>)
                          @@ (due_date :> <<"2", "0", "2", "4", "-", "0", "6", "-", "1", "5">>)>>)))

AiFileInputs == {PartialJson}

UnableToGenerateAnalysis ==
    <<"U", "n", "a", "b", "l", "e", " ", "t", "o", " ", "g", "e", "n", "e",
      "r", "a", "t", "e", " ", "a", "n", "a", "l", "y", "s", "i", "s", ".">>

ErrorConnecting ==
    <<"E", "r", "r", "o", "r", " ", "c", "o", "n", "n", "e", "c", "t", "i",
      "n", "g", " ", "t", "o", " ", "A", "I", " ", "s", "e", "r", "v", "i",
      "c", "e", ".", " ", "P", "l", "e", "a", "s", "e", " ", "c", "h", "e",
      "c", "k", " ", "A", "P", "I", " ", "K", "e", "y", ".">>

UnableToGenerateSummary ==
    <<"U", "n", "a", "b", "l", "e", " ", "t", "o", " ", "g", "e", "n", "e",
      "r", "a", "t", "e", " ", "s", "u", "m", "m", "a", "r", "y", ".">>

ErrorGeneratingSummary ==
    <<"E", "r", "r", "o", "r", " ", "g", "e", "n", "e", "r", "a", "t", "i",
      "n", "g", " ", "s", "u", "m", "m", "a", "r", "y", ".">>

ServiceOutcomes == {"text", "empty", "failure"}

\* response.text of the service's answer to the n-th call
ResponseText(outcome, n) ==
    IF outcome = "text"
    THEN <<"r", "e", "p", "l", "y", " ">>
             \o <<<<"1", "2", "3", "4", "5", "6", "7", "8", "9">>[n]>>
    ELSE <<>>

\* the statements of generateCreditRiskAnalysis before its try block:
\* customer.risk_score_history.join(', ') is a TypeError when the customer
\* has no risk_score_history
AnalysisPromptThrows(customer, invs) == risk_score_history \notin DOMAIN customer

\* the statements of generateAuditSummary before its try block
SummaryPromptThrows(complianceCount, agingBuckets) == FALSE

\* the try block of generateCreditRiskAnalysis
generateCreditRiskAnalysis(outcome, n) ==
    IF outcome = "failure" THEN ErrorConnecting
    ELSE IF ResponseText(outcome, n) # <<>> THEN ResponseText(outcome, n)
    ELSE UnableToGenerateAnalysis

\* the try block of generateAuditSummary
generateAuditSummary(outcome, n) ==
    IF outcome = "failure" THEN ErrorGeneratingSummary
    ELSE IF ResponseText(outcome, n) # <<>> THEN ResponseText(outcome, n)
    ELSE UnableToGenerateSummary

Request(fn, customer, throws) ==
    [fn |-> fn, customer |-> customer,
     state |-> IF throws THEN "rejected" ELSE "pending",
     answer |-> "none", result |-> <<>>]

Fulfilled(request, outcome, result) ==
    [request EXCEPT !.state = "fulfilled", !.answer = outcome,
                    !.result = result]

\* a click on a customer of the risk view: handleAnalyzeCustomer up to its
\* await.  When the call throws the handler ends there, rejected.
handleAnalyzeCustomer ==
    /\ currentView = "AI_RISK"
    /\ Len(requests) < MaxRequests
    /\ \E k \in DOMAIN customers :
           LET customer == customers[k]
           IN  /\ selectedCustomer' = <<customer>>
               /\ isAnalyzing' = TRUE
               /\ aiAnalysis' = <<>>
               /\ requests' =
                      Append(requests,
                             Request("generateCreditRiskAnalysis", <<customer>>,
                                     AnalysisPromptThrows(customer, invoices)))
    /\ UNCHANGED <<transactions, invoices, customers, coa, currentView,
                   upload, summaryReport, call>>
    /\ Render

\* handleAnalyzeCustomer after its await: the service has answered a call
AnalysisReturns ==
    /\ \E n \in DOMAIN requests, outcome \in ServiceOutcomes :
           /\ requests[n].fn = "generateCreditRiskAnalysis"
           /\ requests[n].state = "pending"
           /\ LET result == generateCreditRiskAnalysis(outcome, n)
              IN  /\ aiAnalysis' = result
                  /\ isAnalyzing' = FALSE
                  /\ requests' =
                         [requests EXCEPT ![n] = Fulfilled(@, outcome, result)]
    /\ UNCHANGED <<transactions, invoices, customers, coa, currentView,
                   upload, selectedCustomer, summaryReport, call>>
    /\ Render

\* the Generate Report button of the dashboard, shown while summaryReport
\* is empty and disabled while isAnalyzing: handleGenerateSummary up to
\* its await
handleGenerateSummary ==
    /\ currentView = "DASHBOARD"
    /\ summaryReport = <<>>
    /\ ~isAnalyzing
    /\ Len(requests) < MaxRequests
    /\ isAnalyzing' = TRUE
    /\ requests' =
           Append(requests,
                  Request("generateAuditSummary", <<>>,
                          SummaryPromptThrows(Len(complianceIssues), agingData)))
    /\ UNCHANGED <<transactions, invoices, customers, coa, currentView,
                   upload, selectedCustomer, aiAnalysis, summaryReport, call>>
    /\ Render

\* handleGenerateSummary after its await
SummaryReturns ==
    /\ \E n \in DOMAIN requests, outcome \in ServiceOutcomes :
           /\ requests[n].fn = "generateAuditSummary"
           /\ requests[n].state = "pending"
           /\ LET result == generateAuditSummary(outcome, n)
              IN  /\ summaryReport' = result
                  /\ isAnalyzing' = FALSE
                  /\ requests' =
                         [requests EXCEPT ![n] = Fulfilled(@, outcome, result)]
    /\ UNCHANGED <<transactions, invoices, customers, coa, currentView,
                   upload, selectedCustomer, aiAnalysis, call>>
    /\ Render

\* the upload of the files of AiFileInputs, one at a time
handleFileUploadAi == handleFileUploadOf(AiFileInputs, 1)

InitAi == Init

NextAi ==
    \/ handleAnalyzeCustomer
    \/ AnalysisReturns
    \/ handleGenerateSummary
    \/ SummaryReturns
    \/ Navigate
    \/ handleResetData
    \/ handleFileUploadAi
    \/ ProcessFile

SpecAi == InitAi /\ [][NextAi]_vars

-----------------------------------------------------------------------------
(* Claims about the AI handlers *)

Store == <<transactions, invoices, customers, coa>>

Derived == <<complianceIssues, agingData>>

\* a step of one of the two AI handlers: it makes or settles a request
AiStep == requests' # requests

ErrorPlaceholder(fn) ==
    IF fn = "generateCreditRiskAnalysis" THEN ErrorConnecting
    ELSE ErrorGeneratingSummary

HasHistory(customer) == risk_score_history \in DOMAIN customer

\* C12 as stated: no call of generateCreditRiskAnalysis or
\* generateAuditSummary made with what the store holds is rejected into
\* its handler; a call the service failed returned the error placeholder of
\* its function; and a step of an AI handler leaves the four primary sets
\* and the two derived collections as they were.
C12_NeverRejectsIntoCaller ==
    [][AiStep =>
          /\ \A n \in DOMAIN requests' :
                 /\ requests'[n].state # "rejected"
                 /\ requests'[n].answer = "failure"
                        => requests'[n].result = ErrorPlaceholder(requests'[n].fn)
          /\ Store' = Store
          /\ Derived' = Derived]_vars

\* C12, what the code does: a call is rejected into its handler exactly
\* when it is an analysis of a customer that has no risk_score_history;
\* every other call, once the service failed it, returned the error
\* placeholder of its function; and a step of an AI handler leaves the four
\* primary sets and the two derived collections as they were.
C12_RejectsOnlyWithoutHistory ==
    [][AiStep =>
          /\ \A n \in DOMAIN requests' :
                 /\ requests'[n].state = "rejected"
                        <=> /\ requests'[n].fn = "generateCreditRiskAnalysis"
                            /\ ~HasHistory(requests'[n].customer[1])
                 /\ requests'[n].answer = "failure"
                        => requests'[n].result = ErrorPlaceholder(requests'[n].fn)
          /\ Store' = Store
          /\ Derived' = Derived]_vars

\* an uploaded customer's analysis was rejected, and the service failed the
\* analysis of a customer that has its history
C12_Witness ==
    /\ \E n \in DOMAIN requests : requests[n].state = "rejected"
    /\ \E n \in DOMAIN requests :
           /\ requests[n].fn = "generateCreditRiskAnalysis"
           /\ requests[n].answer = "failure"
           /\ requests[n].result = ErrorConnecting
           /\ isAnalyzing = FALSE

-----------------------------------------------------------------------------
(* Claims about records that leave fields out *)

BucketCountSum(buckets) ==
    SumOver([k \in 1..5 |-> buckets[k].invoice_count], 1..5)

LacksBalance(inv) == ~IsNum(NumField(inv, balance_due))

\* C13 as stated: for every dataset the store holds, an accepted upload
\* included, an invoice without balance_due contributes nothing: the
\* buckets count the invoices with a balance_due above zero and no other,
\* and every total_amount and estimated_allowance is a number.
C13_MissingBalanceContributesNothing ==
    /\ BucketCountSum(agingData)
           = Cardinality({i \in DOMAIN invoices : HasPositiveBalance(invoices[i])})
    /\ \A k \in 1..5 :
           /\ IsNum(agingData[k].total_amount)
           /\ IsNum(agingData[k].estimated_allowance)

\* C13, what the code does: the recomputation returns five buckets for
\* every dataset the store holds, but an invoice without balance_due is not
\* skipped: it is counted in a bucket like an invoice with a balance above
\* zero, and the total_amount and the estimated_allowance of a bucket are
\* numbers exactly when every invoice the buckets count has a balance_due.
C13_MissingBalanceIsCounted ==
    LET counted == {i \in DOMAIN invoices : ~SkipsInvoice(invoices[i])}
        lacking == {i \in counted : LacksBalance(invoices[i])}
    IN  /\ agingData = calculateAllowance(invoices, referenceDate)
        /\ Len(agingData) = 5
        /\ BucketCountSum(agingData) = Cardinality(counted)
        /\ \A i \in DOMAIN invoices : LacksBalance(invoices[i]) => i \in counted
        /\ lacking = {} <=>
               \A k \in 1..5 :
                   /\ IsNum(agingData[k].total_amount)
                   /\ IsNum(agingData[k].estimated_allowance)

\* the uploaded invoice without balance_due, due 16 days before the
\* reference date, is the one invoice of the 1-30 Days bucket,
\* whose total is not a number
C13_Witness ==
    /\ Len(invoices) = 1
    /\ LacksBalance(invoices[1])
    /\ agingData[2].invoice_count = 1
    /\ agingData[2].total_amount = NaN
    /\ agingData[2].estimated_allowance = NaN

-----------------------------------------------------------------------------
(* Claims about the header names a .csv file must carry *)

\* the header names listed for each record type
HeaderContract ==
    [coa |->
        {account_id,
         account_name,
         account_type},
     customers |->
        {customer_id,
         <<"n", "a", "m", "e">>,
         <<"e", "m", "a", "i", "l">>,
         risk_score_history},
     invoices |->
        {invoice_id,
         customer_id,
         <<"i", "n", "v", "o", "i", "c", "e", "_", "d", "a", "t", "e">>,
         due_date,
         original_amount,
         amount_paid,
         balance_due,
         <<"s", "t", "a", "t", "u", "s">>},
     transactions |->
        {transaction_id,
         <<"t", "r", "a", "n", "s", "a", "c", "t", "i", "o", "n", "_", "d", "a", "t", "e">>,
         debit_account_id,
         credit_account_id,
         amount,
         <<"r", "e", "f", "e", "r", "e", "n", "c", "e", "_", "i", "n", "v", "o", "i", "c", "e", "_", "i", "d">>,
         <<"d", "e", "s", "c", "r", "i", "p", "t", "i", "o", "n">>}]

\* the step accepts its file as a dataset of the type
AcceptedAs(type) ==
    /\ Len(upload'.loadedInfo) = Len(upload.loadedInfo) + 1
    /\ upload'.loadedInfo[Len(upload'.loadedInfo)] = CsvLabel(type)

\* C14 as stated: the step that applies a .csv file accepts it as a record
\* type, or changes the primary set of that type, only when every header
\* name listed for the type is among the file's lower-cased header names.
C14_AcceptedOnlyWithFullContract ==
    [][(FileStep /\ IsCsvFile(CurrentFile)) =>
          \A type \in StoreTypes :
              (AcceptedAs(type) \/ PrimarySets'[type] # PrimarySets[type])
                  => HeaderContract[type] \subseteq LoweredHeaders(CurrentFile)]_vars

\* C14, what the code does: the step accepts a .csv file as a record type
\* only when the two names of the type's detection rule are among its
\* header names, and it accepts a file with a data line whose header names
\* include account_id and account_type as Accounts whether or not
\* account_name is among them.
C14_AcceptedOnTwoNames ==
    [][(FileStep /\ IsCsvFile(CurrentFile)) =>
          /\ \A r \in DOMAIN DetectionRules :
                 LET type == DetectionRules[r].type
                 IN  (AcceptedAs(type) \/ PrimarySets'[type] # PrimarySets[type])
                         => RuleMatches(CurrentFile, r)
          /\ (RuleMatches(CurrentFile, 1) /\ Len(PayloadLines(CurrentFile)) >= 2)
                 => /\ AcceptedAs("coa")
                    /\ coa' = parseCSVData(CurrentFile.text).data]_vars

\* a file whose header row is account_type,account_id, with one data line,
\* has replaced the chart of accounts
C14_Witness ==
    /\ upload.pc = "returned"
    /\ upload.loadedInfo = <<"COA (CSV)">>
    /\ coa = <<(account_type :> <<"1", "a">>) @@ (account_id :> <<"2", "a">>)>>

-----------------------------------------------------------------------------
(* Claims about the writers of the store during a batch *)

BatchInFlight == upload.pc = "reading"

MockSets == [transactions |-> MOCK_TRANSACTIONS, invoices |-> MOCK_INVOICES,
             customers |-> MOCK_CUSTOMERS, coa |-> MOCK_COA]

\* C15 as stated: from the start of a handleFileUpload batch until it
\* returns, every step that changes one of the four primary sets is the
\* batch applying its next file, so that nothing else writes between two
\* files of the batch.
C15_NoConcurrentWriter ==
    [][(BatchInFlight /\ PrimarySets' # PrimarySets) => FileStep]_vars

\* C15, what the code does: while a batch is in flight a step that changes
\* a primary set is either the batch applying its next file or
\* handleResetData, which leaves the batch where it is and sets all four
\* sets to the mock data.
C15_ResetWritesDuringBatch ==
    [][(BatchInFlight /\ PrimarySets' # PrimarySets) =>
          \/ FileStep
          \/ upload' = upload /\ PrimarySets' = MockSets]_vars

\* two files of a batch, both accepted as Accounts, have been applied and a
\* third is being read, and the chart of accounts is the mock chart
C15_Witness ==
    /\ BatchInFlight
    /\ upload.i = 2
    /\ upload.loadedInfo = <<"COA (CSV)", "COA (CSV)">>
    /\ coa = MOCK_COA

-----------------------------------------------------------------------------
(* Claims about the aging of the mock invoices *)

\* bucket k holds n invoices with the total balance
BucketHolds(k, n, total) ==
    /\ agingData[k].invoice_count = n
    /\ agingData[k].total_amount = Num(total)

-----------------------------------------------------------------------------
(* Claims about the AI state of the risk view and the dashboard *)

IsAnalysis(n) == requests[n].fn = "generateCreditRiskAnalysis"

Outstanding == {n \in DOMAIN requests : requests[n].state = "pending"}

\* the risk view shows aiAnalysis as the analysis of selectedCustomer
ShowsAnalysis ==
    /\ selectedCustomer # <<>>
    /\ ~isAnalyzing
    /\ aiAnalysis # <<>>

\* the request the latest click on a customer made: the click that set
\* selectedCustomer
LatestAnalysis ==
    CHOOSE n \in DOMAIN requests :
        /\ IsAnalysis(n)
        /\ \A m \in DOMAIN requests : IsAnalysis(m) => m <= n

\* C17 as stated: whenever the risk view shows an analysis text, the text
\* is what the request made for the selected customer, the one of the
\* latest click, returned.
C17_ShowsAnalysisOfSelected ==
    ShowsAnalysis =>
        /\ requests[LatestAnalysis].customer = selectedCustomer
        /\ requests[LatestAnalysis].state = "fulfilled"
        /\ requests[LatestAnalysis].result = aiAnalysis

\* C17, what the code does: whenever the risk view shows an analysis text,
\* the text is what some analysis request returned, and the selected
\* customer is the one of the latest click; the request may be an earlier
\* one, made for another customer.  With a single analysis request made,
\* the text is its result.
C17_ShowsSomeAnalysis ==
    ShowsAnalysis =>
        /\ requests[LatestAnalysis].customer = selectedCustomer
        /\ \E n \in DOMAIN requests :
               /\ IsAnalysis(n)
               /\ requests[n].state = "fulfilled"
               /\ requests[n].result = aiAnalysis
        /\ Cardinality({n \in DOMAIN requests : IsAnalysis(n)}) = 1
               => requests[LatestAnalysis].result = aiAnalysis

\* the answer to the click on the first customer arrived after the answer
\* to the later click on the second: the view shows the first answer under
\* the second customer
C17_Witness ==
    /\ ShowsAnalysis
    /\ Len(requests) = 2
    /\ requests[1].customer = <<MOCK_CUSTOMERS[1]>>
    /\ requests[2].customer = <<MOCK_CUSTOMERS[2]>>
    /\ requests[2].state = "fulfilled"
    /\ selectedCustomer = <<MOCK_CUSTOMERS[2]>>
    /\ aiAnalysis = ResponseText("text", 1)

\* C18 as stated: isAnalyzing is true whenever a request is outstanding,
\* and false once none is.
C18_AnalyzingIffOutstanding ==
    isAnalyzing <=> Outstanding # {}

\* C18, what the code does: every handler sets the flag when it makes its
\* request and clears it when its own request returns, whatever else is in
\* flight; a request that was rejected leaves the flag set.
C18_EachReturnClearsFlag ==
    [][AiStep =>
          IF Len(requests') > Len(requests) THEN isAnalyzing'
          ELSE ~isAnalyzing']_vars

\* one of two requests has returned and cleared the flag while the other
\* is still outstanding
C18_Witness ==
    /\ Len(requests) = 2
    /\ Outstanding # {}
    /\ \E n \in DOMAIN requests : requests[n].state = "fulfilled"
    /\ ~isAnalyzing

-----------------------------------------------------------------------------
(* Claims about invoices whose due date is not a date *)

Unparseable(inv) == ~IsNum(DateGetTime(StrField(inv, due_date)))

\* C19: an invoice with balance_due > 0 whose due_date is not a date is
\* counted in exactly one bucket, 90+ Days, the bucket with the rate of 50
\* percent: 90+ Days counts these invoices and the dated invoices older
\* than 90 days and sums their balances, every other bucket counts dated
\* invoices only, and the five counts add up to the number of invoices
\* with a balance above zero.
C19_UnparseableDueDateIsOldest ==
    AgingReturned =>
        LET invs == call.args[1]
            ref == call.args[2]
            buckets == call.ret
            positive == {i \in DOMAIN invs : HasPositiveBalance(invs[i])}
            undated == {i \in positive : Unparseable(invs[i])}
            dated == positive \ undated
            InBucket(k) == {i \in dated : AgeInBucket(AgeOf(invs[i], ref), k)}
            oldest == undated \cup InBucket(5)
        IN  /\ buckets[5].bucket = "90+ Days"
            /\ buckets[5].allowance_rate = Num(50)
            /\ buckets[5].invoice_count = Cardinality(oldest)
            /\ buckets[5].total_amount =
                   Num(SumOver([i \in oldest |-> NumField(invs[i], balance_due).v],
                               oldest))
            /\ \A k \in 1..4 : buckets[k].invoice_count = Cardinality(InBucket(k))
            /\ BucketCountSum(buckets) = Cardinality(positive)

\* calculateAllowance has returned for an invoice due "n/a" with balance 7
\* next to one due on the reference date: the first is the one invoice of
\* 90+ Days
C19_Witness ==
    /\ AgingReturned
    /\ Len(call.args[1]) = 2
    /\ StrField(call.args[1][1], due_date) = <<"n", "/", "a">>
    /\ NumField(call.args[1][1], balance_due) = Num(7)
    /\ StrField(call.args[1][2], due_date) = call.args[2]
    /\ HasPositiveBalance(call.args[1][2])
    /\ call.ret[5].invoice_count = 1
    /\ call.ret[5].total_amount = Num(7)
    /\ call.ret[1].invoice_count = 1

-----------------------------------------------------------------------------
(* A batch of two files: a .csv file that is a header row and nothing but  *)
(* blank lines after it, then a file of another extension.                 *)

MaxHeaderOnlyCells == 2

\* what follows the header row: nothing, a line end, blank lines
BlankTailInputs == {<<>>, <<"\n">>, <<"\r", "\n", " ", "\n">>}

HeaderOnlyFileInputs ==
    {File(<<"u", "p", "l", "o", "a", "d", ".", "c", "s", "v">>,
          JoinCells([k \in DOMAIN header |-> Cased(header[k], upper)]) \o tail,
          JsonThrows) :
        header \in {h \in HeaderRowInputs : Len(h) \in 1..MaxHeaderOnlyCells},
        upper \in BOOLEAN, tail \in BlankTailInputs}

InitHeaderOnly ==
    /\ StateInit
    /\ call = NoCall
    /\ \E file \in HeaderOnlyFileInputs : upload = Selected(<<file, Readme>>)

NextHeaderOnly == ProcessFile

SpecHeaderOnly == InitHeaderOnly /\ [][NextHeaderOnly]_vars

\* C20: the step that applies a .csv file made of a header row and no
\* non-blank data line gets empty headers from parseCSVData, finds no
\* detection rule to match, and leaves the four primary sets and the list
\* of loaded datasets as they were; when the batch returns with nothing
\* else recognized it reports that nothing was recognized.
C20_HeaderOnlyFileUnrecognized ==
    [][FileStep =>
          /\ (IsCsvFile(CurrentFile) /\ Len(PayloadLines(CurrentFile)) = 1)
                 => /\ parseCSVData(CurrentFile.text).headers = <<>>
                    /\ DetectCsv(parseCSVData(CurrentFile.text).headers) = "none"
                    /\ PrimarySets' = PrimarySets
                    /\ upload'.loadedInfo = upload.loadedInfo
          /\ upload'.pc = "returned"
                 => /\ upload'.alert = "nothing recognized"
                    /\ PrimarySets' = MockSets]_vars

\* a file whose only line is ACCOUNT_ID,ACCOUNT_TYPE has been applied: the
\* chart of accounts is still the mock chart and nothing is loaded
C20_Witness ==
    /\ BatchInFlight
    /\ upload.i = 1
    /\ LoweredHeaders(upload.files[1]) = {account_id, account_type}
    /\ Len(PayloadLines(upload.files[1])) = 1
    /\ upload.loadedInfo = <<>>
    /\ coa = MOCK_COA

-----------------------------------------------------------------------------
(* Claims about the sets one .csv file writes *)

\* the rules both of whose names are among the headers parseCSVData returns
SatisfiedRules(file) ==
    LET headers == parseCSVData(file.text).headers
    IN  {r \in DOMAIN DetectionRules :
            /\ Includes(headers, DetectionRules[r].first)
            /\ Includes(headers, DetectionRules[r].second)}

ChangedSets == {type \in StoreTypes : PrimarySets'[type] # PrimarySets[type]}

\* C21: the step that applies one .csv file changes at most one of the
\* four primary sets; when the headers parseCSVData returns satisfy two or
\* more detection rules, the file is accepted once, by the first of them
\* in the order Accounts, Customers, Invoices, Transactions: the set of
\* that rule becomes the parsed rows and the other three sets stay.
C21_OneCsvFileOneSet ==
    [][(FileStep /\ IsCsvFile(CurrentFile)) =>
          /\ Cardinality(ChangedSets) <= 1
          /\ Cardinality(SatisfiedRules(CurrentFile)) >= 2 =>
                 LET first == CHOOSE r \in SatisfiedRules(CurrentFile) :
                                  \A q \in SatisfiedRules(CurrentFile) : r <= q
                     type == DetectionRules[first].type
                 IN  /\ AcceptedAs(type)
                     /\ PrimarySets'[type] = parseCSVData(CurrentFile.text).data
                     /\ ChangedSets \subseteq {type}]_vars

\* a file whose header row names account_id, account_type, customer_id and
\* risk_score_history, with one data line, has replaced the chart of
\* accounts by its one row and left the customers as they were
C21_Witness ==
    /\ upload.pc = "returned"
    /\ upload.loadedInfo = <<"COA (CSV)">>
    /\ Len(coa) = 1
    /\ DOMAIN coa[1] = {account_id, account_type, customer_id, risk_score_history}
    /\ customers = MOCK_CUSTOMERS
    /\ invoices = MOCK_INVOICES
    /\ transactions = MOCK_TRANSACTIONS

====
